---- MODULE Spec2Model ----
(***************************************************************************)
(* State-machine model of the agentic assistant: the Memory store          *)
(* (src/memory.py), the ToolRegistry (src/tools.py), the ToolExecutor      *)
(* (src/executor.py), the TaskPlanner (src/planner.py) and the execution   *)
(* loop AgenticAI.execute (src/agent.py).                                  *)
(*                                                                         *)
(* Five specifications share the variables:                                *)
(*   SpecMemory    a Memory store driven through its public methods,       *)
(*   SpecPlanner   a TaskPlanner driven through its public methods,        *)
(*   SpecAgent     an AgenticAI instance driven by a nondeterministic      *)
(*                 decision oracle,                                        *)
(*   SpecLongRun   an AgenticAI instance whose max_iterations exceeds the  *)
(*                 capacity of its Memory, driven by a thinking oracle,    *)
(*   SpecExecutor  a ToolExecutor driven with tools whose invocations      *)
(*                 succeed or raise nondeterministically.                  *)
(*                                                                         *)
(* Python values are records [t, v]: t is the Python type and v the text   *)
(* of the value as a sequence of string fragments, so that an f-string is  *)
(* the concatenation of its fragments and str() keeps the text and sets    *)
(* the type to "str".                                                      *)
(***************************************************************************)
EXTENDS Integers, Sequences, FiniteSets, TLC

VARIABLES
    \* ---- Memory (src/memory.py)
    messages,          \* Memory.messages
    tool_usage,        \* Memory.tool_usage
    max_history,       \* Memory.max_history
    now,               \* the clock read by datetime.now()
    file,              \* the content of the file at the path given to save/load
    mem_op,            \* the Memory method that ran last ("none" after construction)
    mem_raised,        \* the exception the last Memory method raised, or "none"
    history_out,       \* the string the last Memory call returned, if it was get_recent_history
    history_n,         \* the n of that call
    added,             \* history: every message appended since the store was last emptied or loaded
    \* ---- TaskPlanner (src/planner.py)
    current_plan,      \* TaskPlanner.current_plan
    plan_op,           \* the TaskPlanner method that ran last ("none" after construction)
    plan_args,         \* the arguments of that call, if it was update_plan_status
    plan_raised,       \* the exception that call raised, or "none"
    plan_out,          \* the value that call returned
    \* ---- AgenticAI (src/agent.py)
    max_iterations,    \* AgenticAI.max_iterations
    pc,                \* position of the execute call: "idle", "loop", "after_loop"
    goal,              \* the goal of the execute call in progress
    iteration,         \* local iteration of execute
    final_result,      \* local final_result of execute
    action,            \* the action the last loop pass processed
    outcome,           \* how the last execute call ended: "none", "returned", "raised"
    ret,               \* the dictionary the last execute call returned
    error,             \* the exception the last execute call raised
    context_history,   \* the "Conversation History" part of the last decision context
    run,               \* history: the oracle's responses in the execute call, one per loop pass
    oracle_calls,      \* history: oracle calls made by the execute call
    dispatches,        \* history: ToolRegistry.execute calls made by the execute call
    executes,          \* history: execute calls started on this agent
    total_calls,       \* history: oracle calls that execute calls on this agent may have made
    requested,         \* history: tool names use_tool actions asked for since construction or reset
    \* ---- ToolExecutor (src/executor.py)
    max_retries,       \* ToolExecutor.max_retries
    execution_history, \* ToolExecutor.execution_history
    ex_pc,             \* position of the executor call: "idle", "attempting"
    ex_call,           \* the arguments of the executor call in progress or last made
    attempt_number,    \* attempts the retry decorator has made in this call
    ex_outcome,        \* how the last executor call ended: "none", "returned", "raised"
    ex_ret,            \* the value it returned
    ex_err,            \* the exception it raised
    ex_log,            \* history: the outcome of each tool invocation of the call
    ex_base,           \* history: len(execution_history) when the call started
    ex_calls,          \* history: executor calls started
    stats              \* the dictionary get_execution_stats returned, if it ran last

memVars == <<messages, tool_usage, max_history, now, file, mem_op, mem_raised,
             history_out, history_n, added>>
planVars == <<current_plan, plan_op, plan_args, plan_raised, plan_out>>
agentVars == <<max_iterations, pc, goal, iteration, final_result, action, outcome,
               ret, error, context_history, run, oracle_calls, dispatches,
               executes, total_calls, requested>>
execVars == <<max_retries, execution_history, ex_pc, ex_call, attempt_number,
              ex_outcome, ex_ret, ex_err, ex_log, ex_base, ex_calls, stats>>
vars == <<memVars, planVars, agentVars, execVars>>

-----------------------------------------------------------------------------
(* Bounds of the model *)

\* largest max_history a modelled Memory store is constructed with
MaxHistory == 2
\* stamped Memory operations (add_message, add_tool_use) per SpecMemory behaviour
MaxOps == 3
\* largest n passed to get_recent_history in SpecMemory
MaxN == 2
\* largest max_iterations a modelled agent is constructed with
MaxIterations == 2
\* execute calls per SpecAgent behaviour
MaxExecutes == 2
\* oracle calls the execute calls of one SpecAgent behaviour may make in
\* total, once the first call has been made
MaxOracleCalls == 4
\* executor calls per SpecExecutor behaviour
MaxExecCalls == 2
\* update_plan_status is called with step_index in -(MaxStepIndex + 1)..MaxStepIndex
MaxStepIndex == 3

-----------------------------------------------------------------------------
(* Python values *)

Str(parts) == [t |-> "str", v |-> parts]
Num(parts) == [t |-> "num", v |-> parts]
Tuple(parts) == [t |-> "tuple", v |-> parts]
Dict(keys) == [t |-> "dict", v |-> keys]
None == [t |-> "null", v |-> <<"None">>]

\* str(x): the text of x as a string
PyStr(x) == [t |-> "str", v |-> x.v]

\* s[i:] with Python's index rules: a negative i counts from the end, and
\* -0 is 0, so s[-0:] is the whole sequence
PySliceFrom(s, i) ==
    LET n == Len(s)
        start == IF i < 0 THEN (IF n + i < 0 THEN 0 ELSE n + i)
                 ELSE (IF i > n THEN n ELSE i)
    IN SubSeq(s, start + 1, n)

Range(s) == {s[i] : i \in DOMAIN s}

-----------------------------------------------------------------------------
(* Memory: src/memory.py *)

DefaultMaxHistory == 100

Roles == {"user", "assistant"}
Contents == {Str(<<"a">>), Str(<<"b">>)}
\* the add_tool_use calls of the model: tool_name, input_params, result
ToolUses ==
    {<<"calculator", Dict(<<"expression">>), Str(<<"4">>)>>,
     <<"lookup", Dict(<<"key">>), Tuple(<<"1", "2">>)>>}

\* the message dictionary add_message builds
Message(role, content, ts) == [role |-> role, content |-> content, timestamp |-> ts]

\* the record dictionary add_tool_use builds
ToolRecord(tool_name, input_params, result, ts) ==
    [tool |-> tool_name, input |-> input_params, result |-> result, timestamp |-> ts]

\* self.messages after add_message: append, then trim to the last max_history
MessagesAfterAdd(msgs, mh, msg) ==
    LET appended == Append(msgs, msg)
    IN IF Len(appended) > mh THEN PySliceFrom(appended, -mh) ELSE appended

\* tool_usage kept to its newest record, the way messages are trimmed
ToolUsageAfterAddBounded(tu, rec) == PySliceFrom(Append(tu, rec), -1)

\* self.tool_usage after add_tool_use: append, and nothing else
ToolUsageAfterAdd(tu, rec) == Append(tu, rec)

\* one line of get_recent_history: f"{msg['role']}: {msg['content']}\n"
FormatLine(msg) == <<msg.role, ": ">> \o PyStr(msg.content).v \o <<"\n">>

RECURSIVE FormatLines(_)
FormatLines(msgs) ==
    IF msgs = <<>> THEN <<>> ELSE FormatLine(Head(msgs)) \o FormatLines(Tail(msgs))

\* the string get_recent_history(n) returns
RecentHistory(msgs, n) ==
    LET recent == IF Len(msgs) > n THEN PySliceFrom(msgs, -n) ELSE msgs
    IN FormatLines(recent)

\* the tool of the newest record only
ToolsUsedLatest(tu) == IF tu = <<>> THEN {} ELSE {tu[Len(tu)].tool}

\* get_tools_used: list(set(...)), a list in no particular order, kept as a set
ToolsUsed(tu) == {tu[i].tool : i \in DOMAIN tu}

\* a value after json.dump and json.load: a tuple comes back as a list
JsonValue(x) == IF x.t = "tuple" THEN [t |-> "list", v |-> x.v] ELSE x

JsonMessages(msgs) ==
    [i \in DOMAIN msgs |-> [msgs[i] EXCEPT !.content = JsonValue(@)]]

JsonToolUsage(tu) ==
    [i \in DOMAIN tu |-> [tu[i] EXCEPT !.input = JsonValue(@), !.result = JsonValue(@)]]

NoFile == [kind |-> "absent", messages |-> <<>>, tool_usage |-> <<>>]
GarbageFile == [kind |-> "garbage", messages |-> <<>>, tool_usage |-> <<>>]
ListFile == [kind |-> "json_list", messages |-> <<>>, tool_usage |-> <<>>]
Document(msgs, tu) == [kind |-> "doc", messages |-> msgs, tool_usage |-> tu]
\* a JSON object that has neither a "messages" nor a "tool_usage" key, such
\* as {"foo": 1}; the fields hold the defaults data.get(key, []) returns
ObjectFile == [kind |-> "json_object", messages |-> <<>>, tool_usage |-> <<>>]

\* a document saved earlier by a store constructed with the default
\* max_history, holding MaxHistory + 1 messages
EarlierDocument ==
    Document([i \in 1..(MaxHistory + 1) |-> Message("user", Str(<<"old">>), 0)], <<>>)

InitialFiles == {NoFile, GarbageFile, ListFile, ObjectFile, EarlierDocument}

\* json.load returns a dictionary, so that both data.get calls succeed
LoadsADictionary(f) == f.kind \in {"doc", "json_object"}

add_message(role, content) ==
    /\ now < MaxOps
    /\ messages' = MessagesAfterAdd(messages, max_history, Message(role, content, now))
    /\ added' = Append(added, Message(role, content, now))
    /\ now' = now + 1
    /\ mem_op' = "add_message"
    /\ mem_raised' = "none"
    /\ UNCHANGED <<tool_usage, max_history, file>>
    /\ history_out' = <<>> /\ history_n' = 0
    /\ UNCHANGED <<planVars, agentVars, execVars>>

add_tool_use(tool_name, input_params, result) ==
    /\ now < MaxOps
    /\ tool_usage' =
           ToolUsageAfterAdd(tool_usage, ToolRecord(tool_name, input_params, result, now))
    /\ now' = now + 1
    /\ mem_op' = "add_tool_use"
    /\ mem_raised' = "none"
    /\ UNCHANGED <<messages, max_history, file, added>>
    /\ history_out' = <<>> /\ history_n' = 0
    /\ UNCHANGED <<planVars, agentVars, execVars>>

get_recent_history(n) ==
    /\ history_out' = RecentHistory(messages, n)
    /\ history_n' = n
    /\ mem_op' = "get_recent_history"
    /\ mem_raised' = "none"
    /\ UNCHANGED <<messages, tool_usage, max_history, now, file, added>>
    /\ UNCHANGED <<planVars, agentVars, execVars>>

clear ==
    /\ messages' = <<>>
    /\ tool_usage' = <<>>
    /\ added' = <<>>
    /\ mem_op' = "clear"
    /\ mem_raised' = "none"
    /\ UNCHANGED <<max_history, now, file>>
    /\ history_out' = <<>> /\ history_n' = 0
    /\ UNCHANGED <<planVars, agentVars, execVars>>

\* writable: whether open(filepath, 'w') succeeds
save_to_file(writable) ==
    /\ mem_op' = "save_to_file"
    /\ IF writable
       THEN /\ file' = Document(JsonMessages(messages), JsonToolUsage(tool_usage))
            /\ mem_raised' = "none"
       ELSE /\ file' = file
            /\ mem_raised' = "OSError"
    /\ UNCHANGED <<messages, tool_usage, max_history, now, added>>
    /\ history_out' = <<>> /\ history_n' = 0
    /\ UNCHANGED <<planVars, agentVars, execVars>>

load_from_file ==
    /\ mem_op' = "load_from_file"
    /\ IF LoadsADictionary(file)
       THEN /\ messages' = file.messages
            /\ tool_usage' = file.tool_usage
            /\ added' = file.messages
            /\ mem_raised' = "none"
       ELSE /\ mem_raised' = CASE file.kind = "absent" -> "FileNotFoundError"
                               [] file.kind = "garbage" -> "JSONDecodeError"
                               [] OTHER -> "AttributeError"
            /\ UNCHANGED <<messages, tool_usage, added>>
    /\ UNCHANGED <<max_history, now, file>>
    /\ history_out' = <<>> /\ history_n' = 0
    /\ UNCHANGED <<planVars, agentVars, execVars>>

-----------------------------------------------------------------------------
(* TaskPlanner: src/planner.py.  A goal is the sequence of its characters. *)

UpperToLower ==
    [A |-> "a", B |-> "b", C |-> "c", D |-> "d", E |-> "e", F |-> "f", G |-> "g", H |-> "h", I |-> "i", J |-> "j", K |-> "k", L |-> "l", M |-> "m", N |-> "n", O |-> "o", P |-> "p", Q |-> "q", R |-> "r", S |-> "s", T |-> "t", U |-> "u", V |-> "v", W |-> "w", X |-> "x", Y |-> "y", Z |-> "z"]

\* str.lower()
Lower(text) ==
    [i \in DOMAIN text |->
        IF text[i] \in DOMAIN UpperToLower THEN UpperToLower[text[i]] ELSE text[i]]

\* needle in hay
Contains(hay, needle) ==
    \E i \in 0..(Len(hay) - Len(needle)) : SubSeq(hay, i + 1, i + Len(needle)) = needle

CalculationWords ==
    {<<"c", "a", "l", "c", "u", "l", "a", "t", "e">>,
     <<"c", "o", "m", "p", "u", "t", "e">>,
     <<"+">>,
     <<"-">>,
     <<"*">>,
     <<"/">>,
     <<"s", "u", "m">>}

SearchWords ==
    {<<"s", "e", "a", "r", "c", "h">>,
     <<"f", "i", "n", "d">>,
     <<"l", "o", "o", "k", " ", "u", "p">>,
     <<"r", "e", "s", "e", "a", "r", "c", "h">>}

TimeWords ==
    {<<"t", "i", "m", "e">>,
     <<"d", "a", "t", "e">>,
     <<"w", "h", "e", "n">>,
     <<"c", "u", "r", "r", "e", "n", "t">>}

W_read == <<"r", "e", "a", "d">>
W_file == <<"f", "i", "l", "e">>
W_write == <<"w", "r", "i", "t", "e">>
W_save == <<"s", "a", "v", "e">>
W_weather == <<"w", "e", "a", "t", "h", "e", "r">>

\* a step dictionary; _decompose_goal sets no "status" key ("absent") and no
\* "tool" key on think and synthesize steps ("none")
Step(act, tool, description) ==
    [action |-> act, tool |-> tool, description |-> description, status |-> "absent"]

\* lines 55-103: one use_tool step per keyword test that the lowered goal passes
CategorySteps(goal_lower) ==
    LET s1 == IF \E op \in CalculationWords : Contains(goal_lower, op)
              THEN <<Step("use_tool", "calculator", "Perform calculation")>> ELSE <<>>
        s2 == IF \E word \in SearchWords : Contains(goal_lower, word)
              THEN <<Step("use_tool", "web_search", "Search for information")>> ELSE <<>>
        s3 == IF Contains(goal_lower, W_read) /\ Contains(goal_lower, W_file)
              THEN <<Step("use_tool", "file_read", "Read file contents")>> ELSE <<>>
        s4 == IF Contains(goal_lower, W_write) \/ Contains(goal_lower, W_save)
              THEN <<Step("use_tool", "file_write", "Write to file")>> ELSE <<>>
        s5 == IF \E word \in TimeWords : Contains(goal_lower, word)
              THEN <<Step("use_tool", "get_current_time", "Get current time")>> ELSE <<>>
        s6 == IF Contains(goal_lower, W_weather)
              THEN <<Step("use_tool", "weather", "Get weather information")>> ELSE <<>>
    IN s1 \o s2 \o s3 \o s4 \o s5 \o s6

ThinkStep == Step("think", "none", "Analyze the goal and determine approach")
SynthesizeStep == Step("synthesize", "none", "Combine results and provide final answer")

\* _decompose_goal with the think step added whether or not steps were found
_decompose_goal_always_thinking(g, available_tools) ==
    CategorySteps(Lower(g)) \o <<ThinkStep>> \o <<SynthesizeStep>>

\* available_tools is a parameter the method never reads
_decompose_goal(g, available_tools) ==
    LET steps == CategorySteps(Lower(g))
        thought == IF steps = <<>> THEN <<ThinkStep>> ELSE <<>>
    IN steps \o thought \o <<SynthesizeStep>>

\* the plan dictionary create_plan builds, returns and keeps as current_plan
create_plan(g, available_tools) ==
    [goal |-> g, steps |-> _decompose_goal(g, available_tools), status |-> "pending"]

\* current_plan = None
NoPlan == [goal |-> <<>>, steps |-> <<>>, status |-> "none"]

G_calculate == <<"C", "a", "l", "c", "u", "l", "a", "t", "e", " ", "2", "+", "2">>
G_vague == <<"D", "o", " ", "s", "o", "m", "e", "t", "h", "i", "n", "g", " ", "v", "a", "g", "u", "e">>
Goals == {G_calculate, G_vague}
G_research == <<"R", "e", "s", "e", "a", "r", "c", "h", " ", "t", "h", "e", " ", "w", "e", "a", "t", "h", "e", "r">>
G_read_and_save == <<"R", "e", "a", "d", " ", "t", "h", "e", " ", "f", "i", "l", "e", " ", "a", "n", "d", " ", "s", "a", "v", "e", " ", "a", " ", "s", "u", "m", "m", "a", "r", "y">>
G_time == <<"W", "h", "a", "t", " ", "t", "i", "m", "e", " ", "i", "s", " ", "i", "t", "?">>
\* the goals plans are made for in SpecPlanner
PlannerGoals == {G_calculate, G_vague, G_research, G_read_and_save, G_time}
\* the tool-description mappings create_plan is given, as the sets of their keys
ToolSets == {{}, {"calculator", "web_search", "file_read", "file_write", "get_current_time",
                  "weather", "code_executor"}}
PlanStatuses == {"pending", "in_progress", "completed", "failed"}

NoPlanArgs == [step_index |-> 0, status |-> "none"]
NoPlanOut == [kind |-> "none", flag |-> FALSE, index |-> 0]

\* `if self.current_plan` / `if not self.current_plan`
HasPlan(plan) == plan # NoPlan

\* step.get("status", "pending")
StatusOf(step) == IF step.status = "absent" THEN "pending" ELSE step.status

\* update_plan_status: [raised, plan].  The guard has no lower bound, so a
\* negative step_index reaches the subscript, which counts from the end of
\* the list and raises IndexError below -len(steps)
UpdatePlanStatus(plan, step_index, status) ==
    IF HasPlan(plan) /\ step_index < Len(plan.steps)
    THEN LET position == IF step_index < 0 THEN Len(plan.steps) + step_index
                         ELSE step_index
         IN IF position < 0
            THEN [raised |-> "IndexError", plan |-> plan]
            ELSE [raised |-> "none",
                  plan |-> [plan EXCEPT !.steps[position + 1].status = status]]
    ELSE [raised |-> "none", plan |-> plan]

\* get_next_step: the first step whose status is pending, by its position, or None
NextStep(plan) ==
    LET pending == {i \in DOMAIN plan.steps : StatusOf(plan.steps[i]) = "pending"}
    IN IF HasPlan(plan) /\ pending # {}
       THEN [kind |-> "step", flag |-> FALSE,
             index |-> (CHOOSE i \in pending : \A k \in pending : i <= k) - 1]
       ELSE [kind |-> "null", flag |-> FALSE, index |-> 0]

\* is_plan_complete with a failed step counted as done
IsPlanCompleteCountingFailed(plan) ==
    /\ HasPlan(plan)
    /\ \A i \in DOMAIN plan.steps : StatusOf(plan.steps[i]) \in {"completed", "failed"}

\* the value is_plan_complete returns
IsPlanComplete(plan) ==
    /\ HasPlan(plan)
    /\ \A i \in DOMAIN plan.steps : ~(StatusOf(plan.steps[i]) # "completed")

planner_create_plan(g, available_tools) ==
    /\ current_plan' = create_plan(g, available_tools)
    /\ plan_op' = "create_plan"
    /\ plan_args' = NoPlanArgs
    /\ plan_raised' = "none"
    /\ plan_out' = NoPlanOut
    /\ UNCHANGED <<memVars, agentVars, execVars>>

update_plan_status(step_index, status) ==
    /\ current_plan' = UpdatePlanStatus(current_plan, step_index, status).plan
    /\ plan_raised' = UpdatePlanStatus(current_plan, step_index, status).raised
    /\ plan_op' = "update_plan_status"
    /\ plan_args' = [step_index |-> step_index, status |-> status]
    /\ plan_out' = NoPlanOut
    /\ UNCHANGED <<memVars, agentVars, execVars>>

get_next_step ==
    /\ plan_out' = NextStep(current_plan)
    /\ plan_op' = "get_next_step"
    /\ plan_args' = NoPlanArgs
    /\ plan_raised' = "none"
    /\ UNCHANGED <<current_plan, memVars, agentVars, execVars>>

is_plan_complete ==
    /\ plan_out' = [kind |-> "bool", flag |-> IsPlanComplete(current_plan), index |-> 0]
    /\ plan_op' = "is_plan_complete"
    /\ plan_args' = NoPlanArgs
    /\ plan_raised' = "none"
    /\ UNCHANGED <<current_plan, memVars, agentVars, execVars>>

-----------------------------------------------------------------------------
(* ToolRegistry: src/tools.py *)

RegisteredTools ==
    {"calculator", "web_search", "file_read", "file_write", "get_current_time",
     "weather", "code_executor"}

\* the argument names of each tool method
ToolParameters(name) ==
    CASE name = "calculator" -> {"expression"}
      [] name = "web_search" -> {"query"}
      [] name = "file_read" -> {"filepath"}
      [] name = "file_write" -> {"filepath", "content"}
      [] name = "get_current_time" -> {}
      [] name = "weather" -> {"location"}
      [] name = "code_executor" -> {"code"}

\* the text a tool method returns; what follows the fixed prefix is the
\* tool's own business
ToolText(name) ==
    CASE name = "calculator" -> Str(<<"Result: ", "...">>)
      [] name = "web_search" -> Str(<<"Search results for '", "...">>)
      [] name = "file_read" -> Str(<<"File content:\n", "...">>)
      [] name = "file_write" -> Str(<<"Successfully wrote to ", "...">>)
      [] name = "get_current_time" -> Str(<<"Current time: ", "...">>)
      [] name = "weather" -> Str(<<"Weather in ", "...">>)
      [] name = "code_executor" -> Str(<<"Code executed successfully:\n", "...">>)

\* self.tools[tool_name](**parameters): binding the keyword arguments raises
\* TypeError unless parameters is a mapping whose keys are the argument names;
\* the tool bodies catch their own failures and return text
ToolCall(name, parameters) ==
    IF parameters.t = "dict" /\ Range(parameters.v) = ToolParameters(name)
    THEN [raised |-> FALSE, value |-> ToolText(name)]
    ELSE [raised |-> TRUE, value |-> Str(<<"TypeError: ", "...">>)]

\* ToolRegistry.execute with a lookup that raises for an unknown tool
ToolRegistryExecuteRaising(tool_name, parameters) ==
    IF tool_name \notin RegisteredTools
    THEN [raised |-> TRUE, value |-> Str(<<"KeyError: ", tool_name>>)]
    ELSE ToolCall(tool_name, parameters)

\* ToolRegistry.execute: [raised, value], the value returned or the exception raised
ToolRegistryExecute(tool_name, parameters) ==
    IF tool_name \notin RegisteredTools
    THEN [raised |-> FALSE, value |-> Str(<<"Error: Tool '", tool_name, "' not found">>)]
    ELSE LET r == ToolCall(tool_name, parameters)
         IN IF r.raised
            THEN [raised |-> FALSE,
                  value |-> Str(<<"Error executing ", tool_name, ": ">> \o r.value.v)]
            ELSE r

-----------------------------------------------------------------------------
(* AgenticAI: src/agent.py *)

DefaultHistoryWindow == 5

ExhaustedMessage == Str(<<"Maximum iterations reached without completing goal">>)

\* a parsed decision: shape is "dict" for a JSON object, keys are the keys it
\* has; a key it lacks holds a placeholder that is never read
Decision(keys, type, tool, input, thought, result) ==
    [shape |-> "dict", keys |-> keys, type |-> type, tool |-> tool, input |-> input,
     thought |-> thought, result |-> result]

NoDecision == [shape |-> "none", keys |-> {}, type |-> "none", tool |-> "none",
               input |-> None, thought |-> None, result |-> None]

T_complete == "{\"type\": \"complete\", \"result\": \"42\"}"
T_complete_number == "{\"type\": \"complete\", \"result\": 7}"
T_complete_null == "{\"type\": \"complete\", \"result\": null}"
T_complete_bare == "{\"type\": \"complete\"}"
T_think == "{\"type\": \"think\", \"thought\": \"x\"}"
T_tool == "{\"type\": \"use_tool\", \"tool\": \"calculator\", \"input\": {\"expression\": \"2+2\"}}"
T_tool_bad_input == "{\"type\": \"use_tool\", \"tool\": \"calculator\", \"input\": {\"bogus\": 1}}"
T_tool_unknown == "{\"type\": \"use_tool\", \"tool\": \"nope\", \"input\": {}}"
T_other_type == "{\"type\": \"wait\"}"
T_no_type == "{}"
T_list == "[1]"
T_prose == "I should compute 2+2 first."

\* the texts the oracle returns in the model
OracleTexts ==
    {T_complete, T_complete_number, T_complete_null, T_complete_bare, T_think, T_tool,
     T_tool_bad_input, T_tool_unknown, T_other_type, T_no_type, T_list, T_prose}

\* the oracle call itself failing (the client raises)
TransportFailure == "<the client raises>"

\* json.loads(text): [ok, value]; ok is FALSE when it raises JSONDecodeError
JsonLoads(text) ==
    CASE text = T_complete ->
           [ok |-> TRUE, value |-> Decision({"type", "result"}, "complete", "none", None,
                                            None, Str(<<"42">>))]
      [] text = T_complete_number ->
           [ok |-> TRUE, value |-> Decision({"type", "result"}, "complete", "none", None,
                                            None, Num(<<"7">>))]
      [] text = T_complete_null ->
           [ok |-> TRUE, value |-> Decision({"type", "result"}, "complete", "none", None,
                                            None, None)]
      [] text = T_complete_bare ->
           [ok |-> TRUE, value |-> Decision({"type"}, "complete", "none", None, None, None)]
      [] text = T_think ->
           [ok |-> TRUE, value |-> Decision({"type", "thought"}, "think", "none", None,
                                            Str(<<"x">>), None)]
      [] text = T_tool ->
           [ok |-> TRUE, value |-> Decision({"type", "tool", "input"}, "use_tool",
                                            "calculator", Dict(<<"expression">>), None, None)]
      [] text = T_tool_bad_input ->
           [ok |-> TRUE, value |-> Decision({"type", "tool", "input"}, "use_tool",
                                            "calculator", Dict(<<"bogus">>), None, None)]
      [] text = T_tool_unknown ->
           [ok |-> TRUE, value |-> Decision({"type", "tool", "input"}, "use_tool",
                                            "nope", Dict(<<>>), None, None)]
      [] text = T_other_type ->
           [ok |-> TRUE, value |-> Decision({"type"}, "wait", "none", None, None, None)]
      [] text = T_no_type ->
           [ok |-> TRUE, value |-> Decision({}, "none", "none", None, None, None)]
      [] text = T_list ->
           [ok |-> TRUE, value |-> [NoDecision EXCEPT !.shape = "list"]]
      [] OTHER -> [ok |-> FALSE, value |-> NoDecision]

\* a client call wrapped in a handler that lets no failure out
OracleFailureAbsorbed(response) == FALSE

\* lines 145-158: the client call raises, and nothing in _decide_next_action
\* or execute catches it
OracleCallRaises(response) == response = TransportFailure

\* _decide_next_action, from the response text on: parse, and fall back to a
\* think action carrying the text
_decide_next_action(decision_text) ==
    LET parsed == JsonLoads(decision_text)
    IN IF parsed.ok
       THEN parsed.value
       ELSE Decision({"type", "thought"}, "think", "none", None, Str(<<decision_text>>), None)

\* the exception that reading the keys of the action raises in the loop body,
\* or "none"
ActionError(a) ==
    CASE a.shape # "dict" -> "TypeError"
      [] a.shape = "dict" /\ "type" \notin a.keys -> "KeyError"
      [] a.shape = "dict" /\ "type" \in a.keys /\ a.type = "complete"
           /\ "result" \notin a.keys -> "KeyError"
      [] a.shape = "dict" /\ "type" \in a.keys /\ a.type = "use_tool"
           /\ ~({"tool", "input"} \subseteq a.keys) -> "KeyError"
      [] a.shape = "dict" /\ "type" \in a.keys /\ a.type = "think"
           /\ "thought" \notin a.keys -> "KeyError"
      [] OTHER -> "none"

NoReturn == [success |-> FALSE, result |-> None, iterations |-> 0, tools_used |-> {}]

\* the value of "success" in the dictionary execute returns
Success(iter, max) == iter < max

\* the loop condition with the bound included
LoopContinuesInclusive(iter, max) == iter <= max

\* line 86: the condition of the while loop
LoopContinues(iter, max) == iter < max

\* a use_tool branch that also puts the tool's result into the conversation
MessagesWithToolResult(msgs, tool_result) ==
    Append(msgs, Message("assistant", PyStr(tool_result), 0))

\* self.memory.messages after the use_tool branch, lines 98-111: the branch
\* calls add_tool_use only
MessagesAfterToolUse(msgs, tool_result) == msgs

\* execute, lines 76-84: the goal goes to memory, the plan is made
execute_begin(g) ==
    /\ pc = "idle"
    /\ executes < MaxExecutes
    /\ executes = 0 \/ total_calls + max_iterations <= MaxOracleCalls
    /\ messages' = MessagesAfterAdd(messages, max_history, Message("user", Str(g), now))
    /\ added' = Append(added, Message("user", Str(g), now))
    /\ now' = now + 1
    /\ mem_op' = "add_message"
    /\ mem_raised' = "none"
    /\ current_plan' = create_plan(g, RegisteredTools)
    /\ plan_op' = "create_plan"
    /\ plan_args' = NoPlanArgs
    /\ plan_raised' = "none"
    /\ plan_out' = NoPlanOut
    /\ goal' = g
    /\ iteration' = 0
    /\ final_result' = None
    /\ pc' = "loop"
    /\ action' = NoDecision
    /\ outcome' = "none"
    /\ ret' = NoReturn
    /\ error' = "none"
    /\ run' = <<>>
    /\ oracle_calls' = 0
    /\ dispatches' = 0
    /\ executes' = executes + 1
    /\ total_calls' = total_calls + max_iterations
    /\ UNCHANGED <<tool_usage, max_history, file, history_out, history_n,
                   max_iterations, context_history, requested>>
    /\ UNCHANGED execVars

\* the call ends by an exception leaving execute
Raise(e) ==
    /\ pc' = "idle"
    /\ outcome' = "raised"
    /\ error' = e

\* one pass of the while loop, lines 86-115, with the oracle's response
execute_iteration(response) ==
    /\ pc = "loop"
    /\ LoopContinues(iteration, max_iterations)
    /\ iteration' = iteration + 1
    /\ context_history' = RecentHistory(messages, DefaultHistoryWindow)
    /\ oracle_calls' = oracle_calls + 1
    /\ run' = Append(run, response)
    /\ IF OracleCallRaises(response)
       THEN /\ Raise("APIError")
            /\ action' = NoDecision
            /\ UNCHANGED <<memVars, final_result, dispatches>>
       ELSE LET a == _decide_next_action(response)
                r == ToolRegistryExecute(a.tool, a.input)
            IN /\ action' = a
               /\ CASE ActionError(a) # "none" ->
                         /\ Raise(ActionError(a))
                         /\ UNCHANGED <<memVars, final_result, dispatches>>
                    [] ActionError(a) = "none" /\ a.type = "complete" ->
                         /\ final_result' = a.result
                         /\ pc' = "after_loop"
                         /\ UNCHANGED <<memVars, outcome, error, dispatches>>
                    [] ActionError(a) = "none" /\ a.type = "use_tool" ->
                         /\ dispatches' = dispatches + 1
                         /\ IF r.raised
                            THEN /\ Raise("ToolError")
                                 /\ UNCHANGED memVars
                            ELSE /\ tool_usage' =
                                       ToolUsageAfterAdd(tool_usage,
                                           ToolRecord(a.tool, a.input, r.value, now))
                                 /\ now' = now + 1
                                 /\ mem_op' = "add_tool_use"
                                 /\ mem_raised' = "none"
                                 /\ messages' = MessagesAfterToolUse(messages, r.value)
                                 /\ UNCHANGED <<max_history, file, history_out,
                                                history_n, added, pc, outcome, error>>
                         /\ UNCHANGED final_result
                    [] ActionError(a) = "none" /\ a.type = "think" ->
                         /\ messages' = MessagesAfterAdd(messages, max_history,
                                                         Message("assistant", a.thought, now))
                         /\ added' = Append(added, Message("assistant", a.thought, now))
                         /\ now' = now + 1
                         /\ mem_op' = "add_message"
                         /\ mem_raised' = "none"
                         /\ UNCHANGED <<tool_usage, max_history, file, history_out, history_n,
                                        final_result, pc, outcome, error, dispatches>>
                    [] OTHER ->
                         UNCHANGED <<memVars, final_result, pc, outcome, error, dispatches>>
    /\ requested' =
           LET a == _decide_next_action(response)
           IN IF ~OracleCallRaises(response) /\ ActionError(a) = "none" /\ a.type = "use_tool"
              THEN requested \cup {a.tool}
              ELSE requested
    /\ UNCHANGED <<planVars, max_iterations, goal, ret, executes, total_calls>>
    /\ UNCHANGED execVars

\* the final result with a null result let through
FinalResultUnreplaced(fr) == fr

\* lines 117-118: a final_result that is None is replaced by the fixed message
FinalResult(fr) == IF fr = None THEN ExhaustedMessage ELSE fr

\* the content of the closing message with the str() of line 121 left out
FinalMessageContentUnconverted(result) == result

\* line 121: the content of the message that closes the call, str(final_result)
FinalMessageContent(result) == PyStr(result)

\* lines 117-128: after the loop ended by break or by its condition
execute_return ==
    /\ \/ pc = "after_loop"
       \/ pc = "loop" /\ ~LoopContinues(iteration, max_iterations)
    /\ LET result == FinalResult(final_result)
       IN /\ messages' = MessagesAfterAdd(messages, max_history,
                                          Message("assistant", FinalMessageContent(result), now))
          /\ added' = Append(added, Message("assistant", FinalMessageContent(result), now))
          /\ ret' = [success |-> Success(iteration, max_iterations),
                     result |-> result,
                     iterations |-> iteration,
                     tools_used |-> ToolsUsed(tool_usage)]
    /\ now' = now + 1
    /\ mem_op' = "add_message"
    /\ mem_raised' = "none"
    /\ pc' = "idle"
    /\ outcome' = "returned"
    /\ UNCHANGED <<tool_usage, max_history, file, history_out, history_n>>
    /\ UNCHANGED <<planVars, max_iterations, goal, iteration, final_result, action,
                   error, context_history, run, oracle_calls, dispatches, executes,
                   total_calls, requested>>
    /\ UNCHANGED execVars

\* a reset that also forgets the plan
PlanDroppedByReset(plan) == NoPlan

\* the planner's current plan after reset, which never refers to the planner
PlanAfterReset(plan) == plan

\* AgenticAI.reset: self.memory.clear()
reset ==
    /\ pc = "idle"
    /\ messages' = <<>>
    /\ tool_usage' = <<>>
    /\ added' = <<>>
    /\ mem_op' = "clear"
    /\ mem_raised' = "none"
    /\ current_plan' = PlanAfterReset(current_plan)
    /\ UNCHANGED <<max_history, now, file, history_out, history_n>>
    /\ UNCHANGED <<plan_op, plan_args, plan_raised, plan_out>>
    /\ requested' = {}
    /\ UNCHANGED <<max_iterations, pc, goal, iteration, final_result, action, outcome,
                   ret, error, context_history, run, oracle_calls, dispatches,
                   executes, total_calls>>
    /\ UNCHANGED execVars

-----------------------------------------------------------------------------
(* ToolExecutor: src/executor.py *)

DefaultMaxRetries == 3

\* stop_after_attempt(3) of the retry decorator
StopAfterAttempt == 3

\* tool functions handed to the executor, by __name__, and their argument names
ExecutorTools == {"sample_tool", "flaky_tool"}
ExecutorToolParameters == {"x", "y"}
ParameterValues == {Dict(<<"x", "y">>), Dict(<<"x", "z">>)}
DefaultValues == {None, Str(<<"fallback">>)}

Returned(value) == [ok |-> TRUE, value |-> value, error |-> "none"]
Raised(e) == [ok |-> FALSE, value |-> None, error |-> e]

\* what one invocation tool_func(**parameters) can do: binding raises TypeError
\* when the keys are not the argument names; otherwise the tool returns its
\* value or raises one of its errors, as it pleases
Invocations(tool, parameters) ==
    IF Range(parameters.v) # ExecutorToolParameters
    THEN {Raised("TypeError")}
    ELSE {Returned(Num(<<"8">>)), Raised("ValueError"), Raised("TimeoutError")}

\* the dictionary _record_execution appends
ExecutionRecord(ts, tool_name, parameters, result, success, err) ==
    [timestamp |-> ts, tool |-> tool_name, parameters |-> parameters, result |-> result,
     success |-> success, error |-> err]

\* the stop condition of the decorator, after the n-th attempt failed
RetryStops(n) == n >= StopAfterAttempt

\* an except clause that lets the decorator's error through
ExecuteSafeCatchesToolErrorsOnly(e) == e \in {"ToolExecutionError"}

\* the except clause of execute_safe: every Exception
ExecuteSafeCatches(e) ==
    e \in {"RetryError", "ToolExecutionError", "TypeError", "ValueError", "TimeoutError"}

NoError == [type |-> "none", last |-> "none", tool |-> "none"]

\* the error the decorator raises when it gives up: it wraps the last
\* attempt, and knows nothing of the tool
RetryError(last) == [type |-> "RetryError", last |-> last, tool |-> "none"]

RECURSIVE GCD(_, _)
GCD(a, b) == IF b = 0 THEN a ELSE GCD(b, a % b)

\* the value of a / b, b > 0, as a fraction in lowest terms
Quotient(a, b) == [num |-> a \div GCD(a, b), den |-> b \div GCD(a, b)]
\* the value 0
Zero == [num |-> 0, den |-> 1]

\* a count of successes that counts every record
CountEveryRecord(history) == Len(history)

\* sum(1 for r in self.execution_history if r["success"])
RECURSIVE CountSuccessful(_)
CountSuccessful(history) ==
    IF history = <<>> THEN 0
    ELSE (IF Head(history).success THEN 1 ELSE 0) + CountSuccessful(Tail(history))

\* the tool_counts dictionary: tool_counts[tool] = tool_counts.get(tool, 0) + 1
RECURSIVE ToolCounts(_)
ToolCounts(history) ==
    IF history = <<>> THEN [t \in {} |-> 0]
    ELSE LET counts == ToolCounts(SubSeq(history, 1, Len(history) - 1))
             tool == history[Len(history)].tool
         IN [t \in DOMAIN counts \cup {tool} |->
                (IF t \in DOMAIN counts THEN counts[t] ELSE 0) + (IF t = tool THEN 1 ELSE 0)]

NoStats == [kind |-> "none", total_executions |-> 0, successful |-> 0, failed |-> 0,
            success_rate |-> Zero, tool_usage |-> [t \in {} |-> 0]]

\* the dictionary get_execution_stats returns
ExecutionStats(history) ==
    LET total == Len(history)
        successful == CountSuccessful(history)
        failed == total - successful
    IN [kind |-> "stats",
        total_executions |-> total,
        successful |-> successful,
        failed |-> failed,
        success_rate |-> IF total > 0 THEN Quotient(successful, total) ELSE Zero,
        tool_usage |-> ToolCounts(history)]

\* execute_with_retry(tool_func, parameters) is called, directly or (safe)
\* through execute_safe(tool_func, parameters, default_value)
executor_call(tool, parameters, safe, default_value) ==
    /\ ex_pc = "idle"
    /\ ex_calls < MaxExecCalls
    /\ ex_pc' = "attempting"
    /\ ex_call' = [tool |-> tool, parameters |-> parameters, safe |-> safe,
                   default_value |-> default_value]
    /\ attempt_number' = 0
    /\ ex_outcome' = "none"
    /\ ex_ret' = None
    /\ ex_err' = NoError
    /\ ex_log' = <<>>
    /\ ex_base' = Len(execution_history)
    /\ ex_calls' = ex_calls + 1
    /\ stats' = NoStats
    /\ UNCHANGED <<max_retries, execution_history>>
    /\ UNCHANGED <<memVars, planVars, agentVars>>

\* one attempt: the body of execute_with_retry runs once, then the decorator
\* returns the result, retries, or gives up; execute_safe turns the error it
\* catches into default_value
attempt(o) ==
    /\ ex_pc = "attempting"
    /\ o \in Invocations(ex_call.tool, ex_call.parameters)
    /\ attempt_number' = attempt_number + 1
    /\ ex_log' = Append(ex_log, o)
    /\ execution_history' =
           Append(execution_history,
                  ExecutionRecord(now, ex_call.tool, ex_call.parameters, o.value, o.ok, o.error))
    /\ now' = now + 1
    /\ IF o.ok
       THEN /\ ex_pc' = "idle"
            /\ ex_outcome' = "returned"
            /\ ex_ret' = o.value
            /\ ex_err' = NoError
       ELSE IF ~RetryStops(attempt_number + 1)
       THEN UNCHANGED <<ex_pc, ex_outcome, ex_ret, ex_err>>
       ELSE IF ex_call.safe /\ ExecuteSafeCatches(RetryError(o.error).type)
       THEN /\ ex_pc' = "idle"
            /\ ex_outcome' = "returned"
            /\ ex_ret' = ex_call.default_value
            /\ ex_err' = NoError
       ELSE /\ ex_pc' = "idle"
            /\ ex_outcome' = "raised"
            /\ ex_ret' = None
            /\ ex_err' = RetryError(o.error)
    /\ UNCHANGED <<max_retries, ex_call, ex_base, ex_calls, stats>>
    /\ UNCHANGED <<messages, tool_usage, max_history, file, mem_op, mem_raised,
                   history_out, history_n, added>>
    /\ UNCHANGED <<planVars, agentVars>>

\* get_execution_stats, called between executor calls
get_execution_stats ==
    /\ ex_pc = "idle"
    /\ stats' = ExecutionStats(execution_history)
    /\ UNCHANGED <<max_retries, execution_history, ex_pc, ex_call, attempt_number,
                   ex_outcome, ex_ret, ex_err, ex_log, ex_base, ex_calls>>
    /\ UNCHANGED <<memVars, planVars, agentVars>>

-----------------------------------------------------------------------------
(* Specifications *)

DefaultMaxIterations == 10

InitMemory ==
    /\ messages = <<>>
    /\ tool_usage = <<>>
    /\ now = 0
    /\ mem_op = "none"
    /\ mem_raised = "none"
    /\ history_out = <<>>
    /\ history_n = 0
    /\ added = <<>>

InitPlanner ==
    /\ current_plan = NoPlan
    /\ plan_op = "none"
    /\ plan_args = NoPlanArgs
    /\ plan_raised = "none"
    /\ plan_out = NoPlanOut

InitAgent ==
    /\ pc = "idle"
    /\ goal = <<>>
    /\ iteration = 0
    /\ final_result = None
    /\ action = NoDecision
    /\ outcome = "none"
    /\ ret = NoReturn
    /\ error = "none"
    /\ context_history = <<>>
    /\ run = <<>>
    /\ oracle_calls = 0
    /\ dispatches = 0
    /\ executes = 0
    /\ total_calls = 0
    /\ requested = {}

InitExecutor ==
    /\ execution_history = <<>>
    /\ ex_pc = "idle"
    /\ ex_call = [tool |-> "none", parameters |-> Dict(<<>>), safe |-> FALSE,
                  default_value |-> None]
    /\ attempt_number = 0
    /\ ex_outcome = "none"
    /\ ex_ret = None
    /\ ex_err = NoError
    /\ ex_log = <<>>
    /\ ex_base = 0
    /\ ex_calls = 0
    /\ stats = NoStats

\* a Memory(max_history) store and the file its save and load are given
InitM ==
    /\ InitMemory /\ InitPlanner /\ InitAgent /\ InitExecutor
    /\ max_history \in 0..MaxHistory
    /\ file \in InitialFiles
    /\ max_iterations = DefaultMaxIterations
    /\ max_retries = DefaultMaxRetries

NextM ==
    \/ \E role \in Roles, content \in Contents : add_message(role, content)
    \/ \E u \in ToolUses : add_tool_use(u[1], u[2], u[3])
    \/ \E n \in 0..MaxN : get_recent_history(n)
    \/ clear
    \/ \E writable \in BOOLEAN : save_to_file(writable)
    \/ load_from_file

SpecMemory == InitM /\ [][NextM]_vars

\* an AgenticAI(max_iterations) with the Memory(), TaskPlanner() and
\* ToolRegistry() it constructs
InitA ==
    /\ InitMemory /\ InitPlanner /\ InitAgent /\ InitExecutor
    /\ max_history = DefaultMaxHistory
    /\ file = NoFile
    /\ max_iterations \in 0..MaxIterations
    /\ max_retries = DefaultMaxRetries

NextA ==
    \/ \E g \in Goals : execute_begin(g)
    \/ \E response \in OracleTexts \cup {TransportFailure} : execute_iteration(response)
    \/ execute_return
    \/ reset

SpecAgent == InitA /\ [][NextA]_vars

\* an AgenticAI(max_iterations = 101): one more loop pass than its Memory()
\* keeps messages
InitL ==
    /\ InitMemory /\ InitPlanner /\ InitAgent /\ InitExecutor
    /\ max_history = DefaultMaxHistory
    /\ file = NoFile
    /\ max_iterations = DefaultMaxHistory + 1
    /\ max_retries = DefaultMaxRetries

\* the oracle of the long run: it thinks or fails, and may ask for a tool in
\* the first MaxIterations passes
LongRunTexts(passes) ==
    IF passes < MaxIterations THEN {T_think, T_tool, TransportFailure}
    ELSE {T_think, TransportFailure}

NextL ==
    \/ execute_begin(G_vague)
    \/ \E response \in LongRunTexts(iteration) : execute_iteration(response)
    \/ execute_return
    \/ reset

SpecLongRun == InitL /\ [][NextL]_vars

\* a ToolExecutor(max_retries)
InitE ==
    /\ InitMemory /\ InitPlanner /\ InitAgent /\ InitExecutor
    /\ max_history = DefaultMaxHistory
    /\ file = NoFile
    /\ max_iterations = DefaultMaxIterations
    /\ max_retries \in 1..DefaultMaxRetries

NextE ==
    \/ \E tool \in ExecutorTools, parameters \in ParameterValues, safe \in BOOLEAN,
          default_value \in DefaultValues :
           executor_call(tool, parameters, safe, default_value)
    \/ \E o \in {Returned(Num(<<"8">>)), Raised("ValueError"), Raised("TimeoutError"),
                 Raised("TypeError")} : attempt(o)
    \/ get_execution_stats

SpecExecutor == InitE /\ [][NextE]_vars

\* a TaskPlanner()
InitP ==
    /\ InitMemory /\ InitPlanner /\ InitAgent /\ InitExecutor
    /\ max_history = DefaultMaxHistory
    /\ file = NoFile
    /\ max_iterations = DefaultMaxIterations
    /\ max_retries = DefaultMaxRetries

NextP ==
    \/ \E g \in PlannerGoals, available_tools \in ToolSets :
           planner_create_plan(g, available_tools)
    \/ \E step_index \in (-(MaxStepIndex + 1))..MaxStepIndex, status \in PlanStatuses :
           update_plan_status(step_index, status)
    \/ get_next_step
    \/ is_plan_complete

SpecPlanner == InitP /\ [][NextP]_vars

-----------------------------------------------------------------------------
(* Properties of AgenticAI.execute, checked under SpecAgent *)

Last(s) == s[Len(s)]

\* the JSON object the response text denotes, if any
IsObject(t) == t # TransportFailure /\ JsonLoads(t).ok /\ JsonLoads(t).value.shape = "dict"
TypeOf(t) == IF IsObject(t) /\ "type" \in JsonLoads(t).value.keys
             THEN JsonLoads(t).value.type ELSE "none"
IsComplete(t) == TypeOf(t) = "complete"
IsCompleteWithResult(t) ==
    /\ IsComplete(t)
    /\ "result" \in JsonLoads(t).value.keys
    /\ JsonLoads(t).value.result # None
IsToolUse(t) == TypeOf(t) = "use_tool" /\ {"tool", "input"} \subseteq JsonLoads(t).value.keys
IsProse(t) == t # TransportFailure /\ ~JsonLoads(t).ok
IsThink(t) ==
    \/ IsProse(t)
    \/ TypeOf(t) = "think" /\ "thought" \in JsonLoads(t).value.keys
ThoughtOf(t) == IF IsProse(t) THEN Str(<<t>>) ELSE JsonLoads(t).value.thought

\* the thoughts of the think actions among the responses, in order
RECURSIVE ThoughtsOf(_)
ThoughtsOf(responses) ==
    IF responses = <<>> THEN <<>>
    ELSE (IF IsThink(Head(responses)) THEN <<ThoughtOf(Head(responses))>> ELSE <<>>)
         \o ThoughtsOf(Tail(responses))

RECURSIVE ToolUsesIn(_)
ToolUsesIn(responses) ==
    IF responses = <<>> THEN 0
    ELSE (IF IsToolUse(Head(responses)) THEN 1 ELSE 0) + ToolUsesIn(Tail(responses))

\* the execute call has ended, by return or by an exception
Ended == pc = "idle" /\ outcome # "none"

\* the contents of the messages that follow the last user message
LastUserIndex ==
    IF \E i \in DOMAIN messages : messages[i].role = "user"
    THEN CHOOSE i \in DOMAIN messages :
             /\ messages[i].role = "user"
             /\ \A j \in DOMAIN messages : messages[j].role = "user" => j <= i
    ELSE 0
AssistantTail ==
    [j \in 1..(Len(messages) - LastUserIndex) |-> messages[LastUserIndex + j].content]

\* C1: when the first complete action (one that carries a result) arrives at
\* iteration k <= max_iterations, execute returns success = true,
\* iterations = k and the action's result, and no oracle call and no tool
\* dispatch follows the action.
C1_CompleteAtAnyIterationSucceeds ==
    (Ended /\ run # <<>> /\ IsCompleteWithResult(Last(run))) =>
        /\ outcome = "returned"
        /\ ret.success = TRUE
        /\ ret.iterations = Len(run)
        /\ ret.result = JsonLoads(Last(run)).value.result
        /\ oracle_calls = Len(run)
        /\ dispatches = ToolUsesIn(run)

\* C2: when the oracle returns no complete action in the iterations of an
\* execute call, the call returns (does not raise) success = false,
\* iterations = max_iterations and the exhausted message, and the messages
\* after the goal are the thoughts of the run, in order, followed by the
\* exhausted message.
C2_ExhaustionReturnsFailure ==
    (Ended /\ \A i \in DOMAIN run : run[i] # TransportFailure /\ ~IsComplete(run[i])) =>
        /\ outcome = "returned"
        /\ ret.success = FALSE
        /\ ret.iterations = max_iterations
        /\ ret.result = ExhaustedMessage
        /\ mem_op = "add_message" =>
               AssistantTail = ThoughtsOf(run) \o <<ExhaustedMessage>>

\* C3: whatever text the oracle returns, the loop pass processes a use_tool,
\* think or complete action and does not fail; a text that is not JSON is
\* processed as a think action whose thought is the text, appended to Memory
\* as an assistant message.
C3_EveryResponseIsAValidAction ==
    (run # <<>> /\ Last(run) # TransportFailure /\ ~(pc = "idle" /\ outcome = "returned")) =>
        /\ outcome # "raised"
        /\ action.shape = "dict"
        /\ "type" \in action.keys
        /\ action.type \in {"use_tool", "think", "complete"}
        /\ IsProse(Last(run)) =>
               /\ action.type = "think"
               /\ action.thought = Str(<<Last(run)>>)
               /\ messages # <<>>
               /\ Last(messages).role = "assistant"
               /\ Last(messages).content = Str(<<Last(run)>>)

\* the use_tool action of the last response asks for a tool the registry does
\* not hold, or for a tool whose invocation raises
FailingDispatch(t) ==
    /\ IsToolUse(t)
    /\ \/ JsonLoads(t).value.tool \notin RegisteredTools
       \/ ToolCall(JsonLoads(t).value.tool, JsonLoads(t).value.input).raised

\* the text ToolRegistry.execute is to return for a failing dispatch
ExpectedErrorText(t) ==
    LET a == JsonLoads(t).value
    IN IF a.tool \notin RegisteredTools
       THEN Str(<<"Error: Tool '", a.tool, "' not found">>)
       ELSE Str(<<"Error executing ", a.tool, ": ">> \o ToolCall(a.tool, a.input).value.v)

\* C4: a use_tool action whose tool is absent from the registry or raises does
\* not end the call: the registry returns an error text, execute records it
\* as the result of the tool use in Memory, and the loop goes on to its next
\* pass.
C4_FailingDispatchIsRecorded ==
    (run # <<>> /\ FailingDispatch(Last(run)) /\ ~(pc = "idle" /\ outcome = "returned")) =>
        /\ pc = "loop"
        /\ outcome = "none"
        /\ iteration = Len(run)
        /\ tool_usage # <<>>
        /\ Last(tool_usage).tool = JsonLoads(Last(run)).value.tool
        /\ Last(tool_usage).input = JsonLoads(Last(run)).value.input
        /\ Last(tool_usage).result = ExpectedErrorText(Last(run))

\* both kinds of failing dispatch have happened in one call, which goes on
C4_Witness ==
    /\ pc = "loop"
    /\ run = <<T_tool_bad_input, T_tool_unknown>>
    /\ Len(tool_usage) = 2
    /\ tool_usage[1].result.v[1] = "Error executing "
    /\ tool_usage[2].result.v[1] = "Error: Tool '"

-----------------------------------------------------------------------------
(* Properties of the ToolExecutor, checked under SpecExecutor *)

\* the executor call has ended, by return or by an exception
ExecutorEnded == ex_pc = "idle" /\ ex_outcome # "none"

AllFailed == ex_log # <<>> /\ \A i \in DOMAIN ex_log : ~ex_log[i].ok

\* C5: execute_with_retry on a tool that fails on every invocation invokes it
\* exactly 3 times, raises ToolExecutionError carrying the tool name and the
\* last underlying error, and adds exactly one record, success = false, to
\* the ledger.
C5_AlwaysFailingToolOneRecord ==
    (ExecutorEnded /\ ~ex_call.safe /\ AllFailed) =>
        /\ Len(ex_log) = 3
        /\ ex_outcome = "raised"
        /\ ex_err.type = "ToolExecutionError"
        /\ ex_err.tool = ex_call.tool
        /\ ex_err.last = Last(ex_log).error
        /\ Len(execution_history) = ex_base + 1
        /\ Last(execution_history).success = FALSE

\* C6: execute_with_retry on a tool that fails twice and then succeeds returns
\* the value of the third invocation and adds exactly one record,
\* success = true, to the ledger.
C6_EventualSuccessOneRecord ==
    (/\ ExecutorEnded /\ ~ex_call.safe
     /\ Len(ex_log) = 3 /\ ~ex_log[1].ok /\ ~ex_log[2].ok /\ ex_log[3].ok) =>
        /\ ex_outcome = "returned"
        /\ ex_ret = ex_log[3].value
        /\ Len(execution_history) = ex_base + 1
        /\ Last(execution_history).success = TRUE

\* C7: execute_safe never raises: it returns the tool's result when an
\* attempt succeeds and default_value when every attempt fails.
C7_ExecuteSafeNeverRaises ==
    ex_call.safe =>
        /\ ex_outcome # "raised"
        /\ ex_pc = "idle" =>
               /\ ex_outcome = "returned"
               /\ ex_log # <<>>
               /\ Last(ex_log).ok => ex_ret = Last(ex_log).value
               /\ AllFailed => ex_ret = ex_call.default_value
               /\ AllFailed \/ Last(ex_log).ok

\* execute_safe has returned its default after three failed attempts, the
\* last two with different errors
C7_Witness ==
    /\ ex_call.safe
    /\ ExecutorEnded
    /\ AllFailed
    /\ Len(ex_log) = 3
    /\ ex_log[2].error # ex_log[3].error
    /\ ex_call.default_value = Str(<<"fallback">>)
    /\ ex_ret = Str(<<"fallback">>)

-----------------------------------------------------------------------------
(* Properties of the Memory store, checked under SpecMemory *)

\* the last n elements of s, all of s when it has fewer
LastN(s, n) == IF Len(s) < n THEN s ELSE SubSeq(s, Len(s) - n + 1, Len(s))

\* C8: once more than max_history messages have been added, after every
\* add_message the store holds exactly max_history messages, the most recent
\* ones added, in the order they were added.
C8_KeepsTheMostRecent ==
    (mem_op = "add_message" /\ Len(added) > max_history) =>
        /\ Len(messages) = max_history
        /\ messages = LastN(added, max_history)

\* C9: in every reachable state of a Memory store, after any sequence of
\* add_message, add_tool_use, clear, save_to_file and load_from_file calls,
\* len(messages) <= max_history.  Stated for the stores constructed with
\* max_history >= 1; a store with max_history = 0 is the case of C8.
C9_LengthWithinMaxHistory == max_history >= 1 => Len(messages) <= max_history

\* C10: get_recent_history(n) returns the lines of all stored messages when
\* there are fewer than n, and of exactly the last n otherwise, and changes
\* neither messages nor tool_usage.
C10_RecentHistoryIsTheLastN ==
    [][mem_op' = "get_recent_history" =>
           /\ messages' = messages
           /\ tool_usage' = tool_usage
           /\ history_out' = FormatLines(LastN(messages, history_n'))]_vars

\* C11: a store loaded from the file another store saved holds messages and
\* tool_usage equal to the saved store's, element by element and in the same
\* order: a load that directly follows the store's own successful save leaves
\* messages and tool_usage as they were, and a successful load replaces
\* whatever the loading store held by the content of the file.
C11_RoundTripIsLossless ==
    [][/\ (mem_op = "save_to_file" /\ mem_raised = "none"
               /\ mem_op' = "load_from_file") =>
              /\ mem_raised' = "none"
              /\ messages' = messages
              /\ tool_usage' = tool_usage
       /\ (mem_op' = "load_from_file" /\ mem_raised' = "none") =>
              /\ messages' = file.messages
              /\ tool_usage' = file.tool_usage]_vars

-----------------------------------------------------------------------------
(* Properties of the execution loop, continued: checked under SpecAgent *)

\* C12 as stated: when execute returns, the last message in Memory has role
\* assistant and its content equals the result the call returns.
C12_LastMessageEqualsTheResult ==
    [][(pc # "idle" /\ outcome' = "returned") =>
           /\ messages' # <<>>
           /\ Last(messages').role = "assistant"
           /\ Last(messages').content = ret'.result]_vars

\* C12, amended: when execute returns, the last message in Memory has role
\* assistant and its content is the text str() gives for the result the call
\* returns (the result itself when the result is a string).
C12_LastMessageIsTheTextOfTheResult ==
    [][(pc # "idle" /\ outcome' = "returned") =>
           /\ messages' # <<>>
           /\ Last(messages').role = "assistant"
           /\ Last(messages').content.t = "str"
           /\ Last(messages').content.v = ret'.result.v
           /\ (ret'.result.t = "str" => Last(messages').content = ret'.result)]_vars

\* an execute call has just returned a result that is a number
C12_Witness ==
    /\ outcome = "returned"
    /\ mem_op = "add_message"
    /\ ret.result = Num(<<"7">>)
    /\ messages # <<>>
    /\ Last(messages).content = Str(<<"7">>)

\* C13: in an execute call the iteration counter starts at 0, increases by
\* exactly 1 on each pass of the loop and changes at no other step, and never
\* exceeds max_iterations, whatever max_iterations >= 0 is and whatever the
\* oracle answers; each pass makes exactly one oracle call, so the calls made
\* equal the counter.
C13_IterationCounter ==
    [][/\ executes' = executes + 1 => (iteration' = 0 /\ oracle_calls' = 0)
       /\ Len(run') = Len(run) + 1 =>
              (iteration' = iteration + 1 /\ oracle_calls' = oracle_calls + 1)
       /\ (executes' = executes /\ Len(run') # Len(run) + 1) =>
              (iteration' = iteration /\ oracle_calls' = oracle_calls)
       /\ iteration' >= 0
       /\ iteration' <= max_iterations'
       /\ oracle_calls' = iteration'
       /\ Len(run') = iteration']_vars

\* the loop has made as many passes as max_iterations allows, more than one
C13_Witness ==
    /\ pc = "loop"
    /\ max_iterations = MaxIterations
    /\ iteration = max_iterations
    /\ oracle_calls = max_iterations
    /\ iteration > 1

-----------------------------------------------------------------------------
(* Properties of the TaskPlanner, checked under SpecPlanner *)

\* the tool categories in the order _decompose_goal tests them
CategoryOrder ==
    <<"calculator", "web_search", "file_read", "file_write", "get_current_time", "weather">>

\* the goal text matches the keyword test of the category
Matched(category, g) ==
    LET text == Lower(g)
    IN CASE category = "calculator" -> \E w \in CalculationWords : Contains(text, w)
         [] category = "web_search" -> \E w \in SearchWords : Contains(text, w)
         [] category = "file_read" -> Contains(text, W_read) /\ Contains(text, W_file)
         [] category = "file_write" -> Contains(text, W_write) \/ Contains(text, W_save)
         [] category = "get_current_time" -> \E w \in TimeWords : Contains(text, w)
         [] OTHER -> Contains(text, W_weather)

IsMatchedBy(g) == {i \in DOMAIN CategoryOrder : Matched(CategoryOrder[i], g)}

PositionsOf(steps, act) == {i \in DOMAIN steps : steps[i].action = act}

\* C14: the plan create_plan returns has one use_tool step for each category
\* the goal text matches, in the fixed order calculator, web_search, file_read,
\* file_write, get_current_time, weather; a single think step if and only if
\* no category matched; and exactly one synthesize step, always last.  It is
\* the same plan whatever tool descriptions are passed.
C14_PlanShape ==
    plan_op = "create_plan" =>
        LET steps == current_plan.steps
            g == current_plan.goal
            used == PositionsOf(steps, "use_tool")
            matched == IsMatchedBy(g)
        IN /\ \A i \in DOMAIN steps : steps[i].action \in {"use_tool", "think", "synthesize"}
           /\ PositionsOf(steps, "synthesize") = {Len(steps)}
           /\ used = 1..Cardinality(matched)
           /\ \A i \in used :
                  /\ Matched(steps[i].tool, g)
                  /\ Cardinality({k \in matched : k <= CHOOSE c \in matched :
                                                        CategoryOrder[c] = steps[i].tool}) = i
           /\ Cardinality(PositionsOf(steps, "think")) = (IF matched = {} THEN 1 ELSE 0)
           /\ Len(steps) = Cardinality(matched) + (IF matched = {} THEN 1 ELSE 0) + 1
           /\ \A available_tools \in ToolSets : create_plan(g, available_tools) = current_plan

\* a plan was just made for a goal that matches several categories, out of
\* the order of their keywords in the text
C14_Witness ==
    /\ plan_op = "create_plan"
    /\ current_plan.goal = G_read_and_save
    /\ Len(current_plan.steps) = 4
    /\ current_plan.steps[1].tool = "calculator"
    /\ current_plan.steps[4].action = "synthesize"

-----------------------------------------------------------------------------
(* Properties of the ToolExecutor, continued: checked under SpecExecutor *)

RECURSIVE SumOf(_, _)
SumOf(f, keys) ==
    IF keys = {} THEN 0
    ELSE LET k == CHOOSE x \in keys : TRUE IN f[k] + SumOf(f, keys \ {k})

\* C15: the dictionary get_execution_stats returns has total_executions equal
\* to the number of records in the ledger, successful equal to the number of
\* records with success true, failed = total_executions - successful, a count
\* per tool that is the number of that tool's records, the counts summing to
\* total_executions, and success_rate equal to successful / total_executions,
\* or 0 when the ledger is empty.
C15_StatsMatchTheLedger ==
    stats.kind = "stats" =>
        LET h == execution_history
            successes == {i \in DOMAIN h : h[i].success}
        IN /\ stats.total_executions = Len(h)
           /\ stats.successful = Cardinality(successes)
           /\ stats.failed = stats.total_executions - stats.successful
           /\ stats.failed = Cardinality(DOMAIN h \ successes)
           /\ DOMAIN stats.tool_usage = {h[i].tool : i \in DOMAIN h}
           /\ \A t \in DOMAIN stats.tool_usage :
                  stats.tool_usage[t] = Cardinality({i \in DOMAIN h : h[i].tool = t})
           /\ SumOf(stats.tool_usage, DOMAIN stats.tool_usage) = stats.total_executions
           /\ stats.success_rate.den > 0
           /\ IF Len(h) = 0
              THEN stats.success_rate.num = 0
              ELSE stats.success_rate.num * Len(h)
                       = Cardinality(successes) * stats.success_rate.den

\* statistics of a ledger of 2 successes and 3 failures over two tools
C15_Witness ==
    /\ stats.kind = "stats"
    /\ stats.total_executions = 5
    /\ stats.successful = 2
    /\ stats.failed = 3
    /\ stats.success_rate = [num |-> 2, den |-> 5]
    /\ DOMAIN stats.tool_usage = ExecutorTools

-----------------------------------------------------------------------------
(* Properties of the TaskPlanner, continued: checked under SpecPlanner *)

\* C16: is_plan_complete returns true if and only if a current plan exists
\* and the status of every one of its steps is completed; so it returns false
\* for a freshly created plan, when any step is failed, and when no plan
\* exists.
C16_CompleteIffEveryStepCompleted ==
    plan_op = "is_plan_complete" =>
        /\ plan_out.kind = "bool"
        /\ plan_out.flag =
               (/\ current_plan # NoPlan
                /\ \A i \in DOMAIN current_plan.steps :
                       current_plan.steps[i].status = "completed")
        /\ current_plan = NoPlan => ~plan_out.flag
        /\ (\E i \in DOMAIN current_plan.steps :
                current_plan.steps[i].status \in {"absent", "pending", "in_progress", "failed"})
               => ~plan_out.flag

\* is_plan_complete has just answered true for a plan
C16_Witness ==
    /\ plan_op = "is_plan_complete"
    /\ plan_out.flag
    /\ current_plan.goal = G_research
    /\ \A i \in DOMAIN current_plan.steps : current_plan.steps[i].status = "completed"

\* the place of a status in pending -> in_progress -> completed | failed
StatusRank(status) ==
    CASE status = "pending" -> 0
      [] status = "in_progress" -> 1
      [] OTHER -> 2

\* the status stays, or moves forward
Forward(before, after) == before = after \/ StatusRank(before) < StatusRank(after)

\* C17: after a plan is created its steps never change in number or in
\* action, tool or description, and under any sequence of update_plan_status
\* calls the status of each step only moves forward through
\* pending -> in_progress -> completed | failed; no call moves it backwards.
\* Stated for the calls whose step_index is a position of the plan; the other
\* calls are the case of C18.
C17_StatusOnlyMovesForward ==
    [][(/\ plan_op' # "create_plan"
        /\ plan_op' = "update_plan_status" =>
               plan_args'.step_index \in 0..(Len(current_plan.steps) - 1)) =>
           /\ Len(current_plan'.steps) = Len(current_plan.steps)
           /\ \A i \in DOMAIN current_plan.steps :
                  /\ current_plan'.steps[i].action = current_plan.steps[i].action
                  /\ current_plan'.steps[i].tool = current_plan.steps[i].tool
                  /\ current_plan'.steps[i].description = current_plan.steps[i].description
                  /\ Forward(StatusOf(current_plan.steps[i]),
                             StatusOf(current_plan'.steps[i]))]_vars

\* C18: update_plan_status(step_index, status) raises no error and leaves the
\* plan and every step unchanged whenever no current plan exists or step_index
\* is not one of the positions 0..len(steps)-1.
C18_OutOfRangeIsANoOp ==
    [][(/\ plan_op' = "update_plan_status"
        /\ \/ current_plan = NoPlan
           \/ plan_args'.step_index \notin 0..(Len(current_plan.steps) - 1)) =>
           /\ plan_raised' = "none"
           /\ current_plan' = current_plan]_vars

-----------------------------------------------------------------------------
(* Properties of a failing oracle call, checked under SpecLongRun *)

Min(a, b) == IF a < b THEN a ELSE b

\* the contents of the messages the execute call in progress has appended by
\* the end of its passes: the goal, then the thoughts
AppendedByTheCall == <<Str(goal)>> \o ThoughtsOf(run)

ContentsOf(msgs) == [i \in DOMAIN msgs |-> msgs[i].content]

\* the loop pass of this step is one whose oracle call fails
OracleFailsInThisStep == Len(run') = Len(run) + 1 /\ Last(run') = TransportFailure

\* the pass whose oracle call fails ends execute by the client's error, which
\* is turned into no think action and no result; it dispatches no tool and
\* changes neither messages nor tool_usage, and no oracle call or dispatch
\* follows it in the call
AbortsAndLeavesMemory ==
    /\ OracleFailsInThisStep =>
           /\ pc' = "idle"
           /\ outcome' = "raised"
           /\ error' = "APIError"
           /\ ret' = NoReturn
           /\ dispatches' = dispatches
           /\ messages' = messages
           /\ tool_usage' = tool_usage
           /\ Len(tool_usage') >= ToolUsesIn(run)
    /\ (outcome = "raised" /\ error = "APIError" /\ executes' = executes) =>
           /\ oracle_calls' = oracle_calls
           /\ dispatches' = dispatches

-----------------------------------------------------------------------------
(* Properties of the retry decorator, continued: checked under SpecExecutor *)

\* the keys of the parameters of the call are not the tool's argument names
MismatchedKeys == Range(ex_call.parameters.v) # ExecutorToolParameters

\* C20: execute_with_retry called with parameters whose keys do not match the
\* tool's argument names is a usage error that is not retried: the tool
\* invocation is attempted exactly once, and the failure is reported without
\* further attempts.
C20_UsageErrorIsNotRetried ==
    (ex_calls > 0 /\ MismatchedKeys) =>
        /\ attempt_number <= 1
        /\ Len(ex_log) <= 1
        /\ ExecutorEnded =>
               /\ Len(ex_log) = 1
               /\ Len(execution_history) = ex_base + 1
               /\ ~ex_call.safe => (ex_outcome = "raised" /\ ex_err.last = "TypeError")

-----------------------------------------------------------------------------
(* Properties of the Memory store, continued: checked under SpecMemory *)

IsPrefix(s, t) == Len(s) <= Len(t) /\ SubSeq(t, 1, Len(s)) = s

\* C21: tool_usage is append-only and unbounded: under add_message,
\* add_tool_use, the get_ methods and save_to_file the previous tool_usage
\* stays an unchanged prefix of the current one (add_tool_use adds exactly one
\* record at the end, the others none, and trimming messages to max_history
\* touches no tool-use record), and of these calls and clear only clear
\* empties it.
C21_ToolUsageIsAppendOnly ==
    [][/\ mem_op' \in {"add_message", "add_tool_use", "get_recent_history", "save_to_file"} =>
              /\ IsPrefix(tool_usage, tool_usage')
              /\ Len(tool_usage') =
                     Len(tool_usage) + (IF mem_op' = "add_tool_use" THEN 1 ELSE 0)
       /\ mem_op' = "clear" => tool_usage' = <<>>
       /\ (mem_op' # "load_from_file" /\ tool_usage # <<>> /\ tool_usage' = <<>>) =>
              mem_op' = "clear"]_vars

\* add_message has just trimmed messages in a store that holds an earlier
\* tool-use record
C21_Witness ==
    /\ max_history = 1
    /\ mem_op = "add_message"
    /\ Len(added) = 2
    /\ Len(messages) = 1
    /\ Len(tool_usage) = 1
    /\ tool_usage[1].timestamp = 0

-----------------------------------------------------------------------------
(* Properties of AgenticAI.reset and of termination, checked under SpecAgent *)

C23_EveryCallReturns ==
    /\ oracle_calls <= max_iterations
    /\ (Ended /\ \A i \in DOMAIN run : run[i] # TransportFailure) =>
           /\ outcome = "returned"
           /\ \/ run # <<>> /\ IsComplete(Last(run))
              \/ iteration = max_iterations

-----------------------------------------------------------------------------
(* Properties of Memory.load_from_file, checked under SpecMemory *)

\* C24: load_from_file on a path that cannot be read, or whose content is not
\* validly structured (anything but a document with messages and tool_usage),
\* fails with an error surfaced to the caller and leaves the store's messages
\* and tool_usage exactly as they were before the call.
C24_FailedLoadChangesNothing ==
    [][(mem_op' = "load_from_file" /\ file.kind # "doc") =>
           /\ mem_raised' # "none"
           /\ messages' = messages
           /\ tool_usage' = tool_usage]_vars

-----------------------------------------------------------------------------
(* Properties of ToolExecutor.max_retries, checked under SpecExecutor *)

\* C25: a ToolExecutor constructed with max_retries = k invokes the tool at
\* most k times in one execute_with_retry call.
C25_AtMostMaxRetriesAttempts ==
    /\ attempt_number <= max_retries
    /\ Len(ex_log) <= max_retries
    /\ Len(execution_history) - ex_base <= max_retries

-----------------------------------------------------------------------------
(* Properties of the loop's use of Memory, checked under SpecAgent *)

\* C26: a use_tool pass of the loop appends exactly one record to
\* Memory.tool_usage and leaves Memory.messages unchanged, so the conversation
\* history of the decision context built for the next pass is identical to
\* the one built before the tool ran: no tool result appears in it.
C26_ToolUseLeavesTheHistory ==
    [][/\ (Len(run') = Len(run) + 1 /\ IsToolUse(Last(run'))) =>
              /\ Len(tool_usage') = Len(tool_usage) + 1
              /\ IsPrefix(tool_usage, tool_usage')
              /\ Last(tool_usage').tool = JsonLoads(Last(run')).value.tool
              /\ messages' = messages
       /\ (run # <<>> /\ IsToolUse(Last(run)) /\ Len(run') = Len(run) + 1) =>
              context_history' = context_history]_vars

\* the pass after a use_tool pass has built its context, with the goal in it
C26_Witness ==
    /\ Len(run) = 2
    /\ run[1] = T_tool
    /\ run[2] = T_think
    /\ Len(tool_usage) = 1
    /\ tool_usage[1].result = ToolText("calculator")
    /\ context_history = FormatLines(<<Message("user", Str(goal), 0)>>)

\* C27: the tools_used value execute returns is the set of the distinct tool
\* names that use_tool actions asked for in all execute calls on the agent
\* since its construction or its last reset, not only in the call that
\* returns, names that are not in the registry included.
C27_ToolsUsedSinceReset ==
    [][(pc # "idle" /\ outcome' = "returned") => ret'.tools_used = requested']_vars

\* the second execute call has returned without using a tool, and reports
\* the registered and the unregistered tool the first call asked for
C27_Witness ==
    /\ executes = 2
    /\ outcome = "returned"
    /\ dispatches = 0
    /\ ret.tools_used = {"calculator", "nope"}
    /\ "nope" \notin RegisteredTools

\* the loop of the call ended without a complete action
NoCompleteInRun == \A i \in DOMAIN run : ~IsComplete(run[i])

\* the loop of the call ended by a complete action whose result is null
CompleteWithNull ==
    /\ run # <<>>
    /\ IsComplete(Last(run))
    /\ JsonLoads(Last(run)).value.result = None

====
